---- MODULE Spec2Model ----
(***************************************************************************)
(* Model of the order Analyzer (src/analyzer/analyzer.py) and of the RISK  *)
(* and GAIN value objects (src/analyzer/types.py).                         *)
(*                                                                         *)
(* Floating point numbers are modelled as extended rationals: an exact     *)
(* fraction, +inf, -inf or NaN, with the IEEE-754 rules for the non-finite *)
(* values.  Rounding error of finite float arithmetic is abstracted away;  *)
(* np.exp is computed in fixed point (ExpScale).                           *)
(***************************************************************************)
EXTENDS Integers, Sequences, FiniteSets, TLC

\* ------------------------------------------------------------------------
\* Bounds of the model
\* ------------------------------------------------------------------------
\* Rows of a table of the complete model (Spec, SpecPrepare).
MaxRows == 2

\* Rows of a table of the order filter's model (SpecOrders).
MaxOrderRows == 6

\* Rows of a table of the margin driver's model (SpecMargin).
MaxMarginRows == 3

\* Rows of a table of the risk score's model (SpecRisk).
MaxRiskRows == 3

\* Chosen rows of a table of the scorer's model (SpecScore), and the number
\* of zero-margin rows that may follow them.
MaxScoreRows == 4

MaxPad == 16

\* Integers handed to RISK(...) and GAIN(...) directly: -2..MaxValue.
MaxValue == 12

\* Twice the largest risk variance of the classification's model.
MaxTwiceVariance == 122

\* ------------------------------------------------------------------------
\* Extended rationals (float64 values)
\* ------------------------------------------------------------------------
Abs(i) == IF i < 0 THEN -i ELSE i

RECURSIVE GCD(_, _)
GCD(a, b) == IF b = 0 THEN a ELSE GCD(b, a % b)

\* The fraction n/d (d # 0) in lowest terms with a positive denominator.
Fin(n, d) ==
    LET g == GCD(Abs(n), Abs(d))
        s == IF d < 0 THEN -1 ELSE 1
    IN  [k |-> "fin", n |-> s * (n \div g), d |-> s * (d \div g)]

PInf == [k |-> "pinf", n |-> 0, d |-> 1]

NInf == [k |-> "ninf", n |-> 0, d |-> 1]

NaN == [k |-> "nan", n |-> 0, d |-> 1]

Int2X(i) == Fin(i, 1)

IsNaN(x) == x.k = "nan"

IsFinite(x) == x.k = "fin"

IsInf(x) == x.k \in {"pinf", "ninf"}

\* -1, 0, 1 for negative, zero, positive; infinities have a sign, NaN has none.
Sign(x) ==
    CASE x.k = "pinf" -> 1
      [] x.k = "ninf" -> -1
      [] x.k = "fin" -> (IF x.n > 0 THEN 1 ELSE IF x.n < 0 THEN -1 ELSE 0)
      [] OTHER -> 0

XNeg(x) ==
    CASE x.k = "pinf" -> NInf
      [] x.k = "ninf" -> PInf
      [] x.k = "fin" -> Fin(-x.n, x.d)
      [] OTHER -> NaN

XAdd(x, y) ==
    IF IsNaN(x) \/ IsNaN(y) THEN NaN
    ELSE IF IsInf(x) /\ IsInf(y) THEN (IF x.k = y.k THEN x ELSE NaN)
    ELSE IF IsInf(x) THEN x
    ELSE IF IsInf(y) THEN y
    ELSE LET g == GCD(x.d, y.d)
         IN  Fin(x.n * (y.d \div g) + y.n * (x.d \div g), (x.d \div g) * y.d)

XSub(x, y) == XAdd(x, XNeg(y))

XMul(x, y) ==
    IF IsNaN(x) \/ IsNaN(y) THEN NaN
    ELSE IF IsInf(x) \/ IsInf(y)
         THEN (IF Sign(x) * Sign(y) > 0 THEN PInf
               ELSE IF Sign(x) * Sign(y) < 0 THEN NInf
               ELSE NaN)
    ELSE Fin(x.n * y.n, x.d * y.d)

\* Float division as numpy/pandas do it: x/0 is +-inf, 0/0 is NaN, no exception.
XDiv(x, y) ==
    IF IsNaN(x) \/ IsNaN(y) THEN NaN
    ELSE IF IsInf(x) /\ IsInf(y) THEN NaN
    ELSE IF IsInf(x) THEN (IF Sign(y) >= 0 THEN x ELSE XNeg(x))
    ELSE IF IsInf(y) THEN Fin(0, 1)
    ELSE IF y.n = 0
         THEN (IF x.n > 0 THEN PInf ELSE IF x.n < 0 THEN NInf ELSE NaN)
    ELSE Fin(x.n * y.d, x.d * y.n)

\* Comparisons: every comparison with NaN is False.
XLt(x, y) ==
    IF IsNaN(x) \/ IsNaN(y) THEN FALSE
    ELSE IF x.k = "pinf" \/ y.k = "ninf" THEN FALSE
    ELSE IF x.k = "ninf" \/ y.k = "pinf" THEN TRUE
    ELSE x.n * y.d < y.n * x.d

XGt(x, y) == XLt(y, x)

XEq(x, y) ==
    IF IsNaN(x) \/ IsNaN(y) THEN FALSE
    ELSE IF IsInf(x) \/ IsInf(y) THEN x.k = y.k
    ELSE x.n * y.d = y.n * x.d

XLe(x, y) == XLt(x, y) \/ XEq(x, y)

XGe(x, y) == XLe(y, x)

\* ------------------------------------------------------------------------
\* Sequences of values (pandas Series / numpy arrays)
\* ------------------------------------------------------------------------
RECURSIVE XSum(_)
XSum(s) == IF Len(s) = 0 THEN Fin(0, 1) ELSE XAdd(Head(s), XSum(Tail(s)))

DropNaN(s) == SelectSeq(s, LAMBDA x : ~IsNaN(x))

HasNaN(s) == \E i \in 1..Len(s) : IsNaN(s[i])

\* Insert x into the ascending sequence s behind the elements <= x (stable).
RECURSIVE InsertAsc(_, _)
InsertAsc(x, s) ==
    IF Len(s) = 0 THEN <<x>>
    ELSE IF XLt(x, Head(s)) THEN <<x>> \o s
    ELSE <<Head(s)>> \o InsertAsc(x, Tail(s))

RECURSIVE SortedValues(_)
SortedValues(s) ==
    IF Len(s) = 0 THEN <<>>
    ELSE InsertAsc(s[Len(s)], SortedValues(SubSeq(s, 1, Len(s) - 1)))

\* pandas Series.mean(): NaN is skipped (skipna=True); an all-NaN or empty
\* series has mean NaN; the sum of +inf and -inf is NaN.
Mean(s) ==
    LET v == DropNaN(s)
    IN  IF Len(v) = 0 THEN NaN ELSE XDiv(XSum(v), Int2X(Len(v)))

\* pandas Series.var(ddof=0): population variance of the non-NaN values.
VarPop(s) ==
    LET v == DropNaN(s)
        m == Mean(v)
        sq == [i \in 1..Len(v) |-> XMul(XSub(v[i], m), XSub(v[i], m))]
    IN  IF Len(v) = 0 THEN NaN ELSE XDiv(XSum(sq), Int2X(Len(v)))

\* numpy's _lerp(a, b, t): a + (b - a) * t, and b - (b - a) * (1 - t) where
\* t >= 0.5.  With a non-finite a or b the differences are inf or NaN.
Lerp(a, b, t) ==
    LET diff == XSub(b, a)
    IN  IF XGe(t, Fin(1, 2))
        THEN XSub(b, XMul(diff, XSub(Fin(1, 1), t)))
        ELSE XAdd(a, XMul(diff, t))

\* np.percentile(s, 100*qn/qd) with linear interpolation, s not empty:
\* NaN if s holds a NaN, else the value at virtual index (n-1)*q of the
\* sorted values, interpolated between its two neighbours.
Percentile(s, qn, qd) ==
    LET n == Len(s)
        v == SortedValues(s)
        prev == (qn * (n - 1)) \div qd
        gamma == Fin((qn * (n - 1)) % qd, qd)
        next == IF prev + 1 > n - 1 THEN n - 1 ELSE prev + 1
    IN  IF HasNaN(s) THEN NaN
        ELSE Lerp(v[prev + 1], v[next + 1], gamma)

\* pandas Series.quantile(q): np.percentile of the non-NaN values, NaN if
\* there are none.
Quantile(s, qn, qd) ==
    LET v == DropNaN(s)
    IN  IF Len(v) = 0 THEN NaN ELSE Percentile(v, qn, qd)

\* np.round / round(): nearest integer, a tie goes to the even neighbour.
RoundHalfEven(x) ==
    LET fl == x.n \div x.d
        rem2 == 2 * (x.n - fl * x.d)
    IN  IF rem2 < x.d THEN fl
        ELSE IF rem2 > x.d THEN fl + 1
        ELSE IF fl % 2 = 0 THEN fl ELSE fl + 1

\* np.clip(v, lo, hi) on integers.
Clip(v, lo, hi) == IF v < lo THEN lo ELSE IF v > hi THEN hi ELSE v

\* ------------------------------------------------------------------------
\* np.exp(-x) in fixed point: ExpNegFix(n, d) ~ ExpScale * e^(-n/d), n/d >= 0
\* ------------------------------------------------------------------------
ExpScale == 1000 * 1000

\* a * b / ExpScale without leaving 32 bits (a, b <= ExpScale).
MulFix(a, b) ==
    (a * (b \div 1000)) \div 1000 + (a * (b % 1000)) \div ExpScale

\* The Taylor series of e^(-r/d), 0 <= r <= d: sum of (-r/d)^k / k!.
RECURSIVE TaylorNeg(_, _, _, _)
TaylorNeg(r, d, k, term) ==
    IF k > 12 \/ term = 0 THEN 0
    ELSE (IF k % 2 = 0 THEN term ELSE -term)
         + TaylorNeg(r, d, k + 1, (term * r) \div (d * (k + 1)))

RECURSIVE PowFix(_, _)
PowFix(b, e) == IF e = 0 THEN ExpScale ELSE MulFix(b, PowFix(b, e - 1))

ExpNegFix(n, d) ==
    MulFix(PowFix(TaylorNeg(1, 1, 0, ExpScale), n \div d),
           TaylorNeg(n % d, d, 0, ExpScale))

\* ------------------------------------------------------------------------
\* RISK and GAIN value objects (types.py)
\* ------------------------------------------------------------------------
\* RISK with the lower bound of the range test off by one.
RISKFromZero(value) ==
    IF 0 <= value /\ value <= 10
    THEN [ok |-> TRUE, value |-> value, error |-> ""]
    ELSE [ok |-> FALSE, value |-> value,
          error |-> "ValueError: RISK must be between 1 and 10"]

\* RISK(value): the frozen instance, or the ValueError of __post_init__.
RISK(value) ==
    IF 1 <= value /\ value <= 10
    THEN [ok |-> TRUE, value |-> value, error |-> ""]
    ELSE [ok |-> FALSE, value |-> value,
          error |-> "ValueError: RISK must be between 1 and 10"]

GAIN(value) ==
    IF 1 <= value /\ value <= 10
    THEN [ok |-> TRUE, value |-> value, error |-> ""]
    ELSE [ok |-> FALSE, value |-> value,
          error |-> "ValueError: GAIN must be between 1 and 10"]

\* ------------------------------------------------------------------------
\* Data frames: [cols |-> sequence of column names, rows |-> sequence of
\* rows], a row being a function from column name to value.
\* ------------------------------------------------------------------------
BaseColumns ==
    <<"customer_id", "order_id", "processing_time_hr", "costs", "profit",
      "risk (in percent)">>

InCols(df, c) == \E i \in 1..Len(df.cols) : df.cols[i] = c

Column(rows, c) == [i \in 1..Len(rows) |-> rows[i][c]]

\* df[c] = values: a new column is appended behind the existing ones.
WithColumn(df, c, values) ==
    [cols |-> Append(df.cols, c),
     rows |-> [i \in 1..Len(df.rows) |-> df.rows[i] @@ (c :> values[i])]]

\* customer_id cells: an integer or a string cell of the spreadsheet.
IdInt(i) == [t |-> "int", i |-> i, s |-> ""]

IdStr(s) == [t |-> "str", i |-> 0, s |-> s]

Digit(d) ==
    CASE d = 0 -> "0" [] d = 1 -> "1" [] d = 2 -> "2" [] d = 3 -> "3"
      [] d = 4 -> "4" [] d = 5 -> "5" [] d = 6 -> "6" [] d = 7 -> "7"
      [] d = 8 -> "8" [] OTHER -> "9"

RECURSIVE IntToStr(_)
IntToStr(i) ==
    IF i < 0 THEN "-" \o IntToStr(-i)
    ELSE IF i < 10 THEN Digit(i)
    ELSE IntToStr(i \div 10) \o Digit(i % 10)

\* str(client_id)
Str(id) == IF id.t = "int" THEN IntToStr(id.i) ELSE id.s

\* ------------------------------------------------------------------------
\* Analyzer._prepare_columns
\* ------------------------------------------------------------------------
AddContributionMargin(df) ==
    IF InCols(df, "contribution_margin") THEN df
    ELSE WithColumn(df, "contribution_margin",
             [i \in 1..Len(df.rows) |->
                 XSub(df.rows[i]["profit"], df.rows[i]["costs"])])

\* The margin per hour derived without the test for an existing column.
AddMarginPerHourAlways(df) ==
    LET values == [i \in 1..Len(df.rows) |->
                      XDiv(df.rows[i]["contribution_margin"],
                           df.rows[i]["processing_time_hr"])]
    IN  IF InCols(df, "margin_per_hour")
        THEN [cols |-> df.cols,
              rows |-> [i \in 1..Len(df.rows) |->
                           [df.rows[i] EXCEPT !["margin_per_hour"] = values[i]]]]
        ELSE WithColumn(df, "margin_per_hour", values)

AddMarginPerHour(df) ==
    IF InCols(df, "margin_per_hour") THEN df
    ELSE WithColumn(df, "margin_per_hour",
             [i \in 1..Len(df.rows) |->
                 XDiv(df.rows[i]["contribution_margin"],
                      df.rows[i]["processing_time_hr"])])

PrepareColumns(df) == AddMarginPerHour(AddContributionMargin(df))

\* ------------------------------------------------------------------------
\* Analyzer.analyze_margin and print_characteristics
\* ------------------------------------------------------------------------
Features == <<"processing_time_hr", "costs", "profit", "risk (in percent)">>

\* DataFrame.corr() of columns x and y (pandas nancorr): Pearson over the
\* rows where both values are finite; NaN with no such row or with a zero
\* divisor.  The coefficient r is kept exactly as its signed square r*|r|,
\* which orders and compares like r (sqrt is monotone).
CorrSigned(xs, ys) ==
    LET keep == SelectSeq([i \in 1..Len(xs) |-> i],
                          LAMBDA i : IsFinite(xs[i]) /\ IsFinite(ys[i]))
        x == [j \in 1..Len(keep) |-> xs[keep[j]]]
        y == [j \in 1..Len(keep) |-> ys[keep[j]]]
        mx == Mean(x)
        my == Mean(y)
        ssx == XSum([j \in 1..Len(keep) |->
                        XMul(XSub(x[j], mx), XSub(x[j], mx))])
        ssy == XSum([j \in 1..Len(keep) |->
                        XMul(XSub(y[j], my), XSub(y[j], my))])
        cov == XSum([j \in 1..Len(keep) |->
                        XMul(XSub(x[j], mx), XSub(y[j], my))])
        div2 == XMul(ssx, ssy)
    IN  IF Len(keep) < 1 THEN NaN
        ELSE IF div2.n = 0 THEN NaN
        ELSE XDiv(XMul(cov, Int2X(Abs(cov.n))), XMul(div2, Int2X(cov.d)))

\* Series.sort_values(ascending=False): the non-NaN entries in descending
\* order, equal ones in their original order, the NaN entries last.
RECURSIVE InsertDesc(_, _)
InsertDesc(e, s) ==
    IF Len(s) = 0 THEN <<e>>
    ELSE IF XGt(e.value, Head(s).value) THEN <<e>> \o s
    ELSE <<Head(s)>> \o InsertDesc(e, Tail(s))

RECURSIVE SortDesc(_)
SortDesc(s) ==
    IF Len(s) = 0 THEN <<>>
    ELSE InsertDesc(s[Len(s)], SortDesc(SubSeq(s, 1, Len(s) - 1)))

\* sort_values() with the default ascending=True.
SortValuesAsc(s) ==
    LET d == SortDesc(SelectSeq(s, LAMBDA e : ~IsNaN(e.value)))
    IN  [i \in 1..Len(d) |-> d[Len(d) + 1 - i]]
            \o SelectSeq(s, LAMBDA e : IsNaN(e.value))

SortValuesDesc(s) ==
    SortDesc(SelectSeq(s, LAMBDA e : ~IsNaN(e.value)))
        \o SelectSeq(s, LAMBDA e : IsNaN(e.value))

\* order_df[features + ["margin_per_hour"]].corr()["margin_per_hour"]
\*     .sort_values(ascending=False)
AnalyzeMargin(df) ==
    LET cols == Features \o <<"margin_per_hour">>
        mph == Column(df.rows, "margin_per_hour")
    IN  SortValuesDesc([i \in 1..Len(cols) |->
            [feature |-> cols[i],
             value |-> CorrSigned(Column(df.rows, cols[i]), mph)]])

\* The strength band of abs(value): 0.7, 0.4, 0.2 compare with |r|, that is
\* 0.49, 0.16, 0.04 with the square kept here.
Strength(value) ==
    LET strength == IF Sign(value) < 0 THEN XNeg(value) ELSE value
    IN  IF XGe(strength, Fin(49, 100)) THEN "strong"
        ELSE IF XGe(strength, Fin(16, 100)) THEN "moderate"
        ELSE IF XGe(strength, Fin(4, 100)) THEN "weak"
        ELSE "very weak"

Direction(value) ==
    IF XGt(value, Fin(0, 1)) THEN "increases" ELSE "decreases"

\* The lines print_characteristics prints, one per reported feature.
Characteristics(corr) ==
    LET shown == SelectSeq(corr, LAMBDA e : e.feature # "margin_per_hour")
    IN  [i \in 1..Len(shown) |->
            [report |-> "characteristics", subject |-> shown[i].feature,
             text |-> Strength(shown[i].value),
             extra |-> Direction(shown[i].value)]]

\* ------------------------------------------------------------------------
\* Analyzer._calculate_risk, _calculate_gain
\* ------------------------------------------------------------------------
\* The score with the decay itself in place of its complement:
\* round(1 + 9 * np.exp(-expected_risk / 20)).
RiskScoreDecay(expected_risk) ==
    LET e == ExpNegFix(expected_risk.n, 20 * expected_risk.d)
        score == ExpScale + 9 * e
    IN  (2 * score + ExpScale) \div (2 * ExpScale)

\* round(1 + 9 * (1 - np.exp(-expected_risk / 20))) for expected_risk >= 0.
RiskScoreRaw(expected_risk) ==
    LET e == ExpNegFix(expected_risk.n, 20 * expected_risk.d)
        score == ExpScale + 9 * (ExpScale - e)
    IN  (2 * score + ExpScale) \div (2 * ExpScale)

RiskScore(expected_risk) == Clip(RiskScoreRaw(expected_risk), 1, 10)

CalculateRisk(client_rows) ==
    LET expected_risk == Mean(Column(client_rows, "risk (in percent)"))
        variance == VarPop(Column(client_rows, "risk (in percent)"))
    IN  [risk |-> RISK(RiskScore(expected_risk)), variance |-> variance]

\* int(np.clip(np.round(scaled * 9 + 1), 1, 10)): np.round and np.clip keep
\* NaN, and int(NaN) raises ValueError; +-inf is clipped to 10 or 1.
GainScore(scaled) ==
    LET v == XAdd(XMul(scaled, Int2X(9)), Int2X(1))
    IN  IF IsNaN(v)
        THEN [ok |-> FALSE, value |-> 0,
              error |-> "ValueError: cannot convert float NaN to integer"]
        ELSE IF v.k = "pinf" THEN [ok |-> TRUE, value |-> 10, error |-> ""]
        ELSE IF v.k = "ninf" THEN [ok |-> TRUE, value |-> 1, error |-> ""]
        ELSE [ok |-> TRUE, value |-> Clip(RoundHalfEven(v), 1, 10),
              error |-> ""]

CalculateGain(client_rows) ==
    LET mph == Column(client_rows, "margin_per_hour")
        avg_mph == Mean(mph)
        p10 == Percentile(mph, 1, 10)
        p90 == Percentile(mph, 9, 10)
        score == IF XEq(p90, p10) THEN [ok |-> TRUE, value |-> 5, error |-> ""]
                 ELSE GainScore(XDiv(XSub(avg_mph, p10), XSub(p90, p10)))
    IN  IF score.ok THEN GAIN(score.value) ELSE score

\* ------------------------------------------------------------------------
\* Analyzer.analyze_client, print_client_risk_and_gain
\* ------------------------------------------------------------------------
\* The customer_id cells of the model in groupby's key order (sorted,
\* numbers before strings).
CustomerIds == <<IdInt(1), IdStr("1"), IdStr("A"), IdStr("B")>>

\* order_df.groupby("customer_id"): the ids present, in key order ...
GroupKeys(df) ==
    SelectSeq(CustomerIds,
              LAMBDA id : \E i \in 1..Len(df.rows) :
                              df.rows[i]["customer_id"] = id)

\* ... and each one's rows, in table order.
GroupRows(df, id) == SelectSeq(df.rows, LAMBDA r : r["customer_id"] = id)

\* One pass of the loop body for client_id; the loop ends at the first
\* exception, with the records written so far left in client_dict.
RECURSIVE ClientLoop(_, _, _)
ClientLoop(df, keys, dict) ==
    IF Len(keys) = 0 THEN [dict |-> dict, error |-> ""]
    ELSE LET client_df == GroupRows(df, Head(keys))
             r == CalculateRisk(client_df)
             gain == CalculateGain(client_df)
             record == [risk |-> r.risk.value,
                        risk_variance |-> r.variance,
                        gain |-> gain.value,
                        avg_margin_per_hour |->
                            Mean(Column(client_df, "margin_per_hour"))]
         IN  IF ~r.risk.ok THEN [dict |-> dict, error |-> r.risk.error]
             ELSE IF ~gain.ok THEN [dict |-> dict, error |-> gain.error]
             ELSE ClientLoop(df, Tail(keys),
                             (Str(Head(keys)) :> record) @@ dict)

AnalyzeClient(df, dict) == ClientLoop(df, GroupKeys(df), dict)

\* The classification with the "Strong client" rule tested first.
ClassifyStrongFirst(gain, risk, variance) ==
    IF gain >= 6 THEN "Strong client"
    ELSE IF gain <= 4 /\ risk <= 4 /\ XLe(variance, Int2X(40))
    THEN "Unprofitable but stable"
    ELSE IF risk >= 6 \/ XGe(variance, Int2X(60)) THEN "Risk exposure"
    ELSE "Neutral"

\* The label print_client_risk_and_gain prints for one client.
Classify(gain, risk, variance) ==
    IF gain >= 6 /\ (risk >= 6 \/ XGe(variance, Int2X(60)))
    THEN "Profitable but risky"
    ELSE IF gain <= 4 /\ risk <= 4 /\ XLe(variance, Int2X(40))
    THEN "Unprofitable but stable"
    ELSE IF gain >= 6 THEN "Strong client"
    ELSE IF risk >= 6 \/ XGe(variance, Int2X(60)) THEN "Risk exposure"
    ELSE "Neutral"

ClientLabels(dict) ==
    [key \in DOMAIN dict |->
        Classify(dict[key].gain, dict[key].risk, dict[key].risk_variance)]

\* The lines print_client_risk_and_gain prints, one per dictionary key, in
\* the dictionary's insertion order, which is the key order of the groups; a
\* key written twice keeps its first position.
ClientLines(dict) ==
    LET strs == [i \in 1..Len(CustomerIds) |-> Str(CustomerIds[i])]
        first == SelectSeq([i \in 1..Len(strs) |-> i],
                           LAMBDA i : \A j \in 1..(i - 1) : strs[j] # strs[i])
        keys == SelectSeq([i \in 1..Len(first) |-> strs[first[i]]],
                          LAMBDA k : k \in DOMAIN dict)
        labels == ClientLabels(dict)
    IN  [i \in 1..Len(keys) |->
            [report |-> "clients", subject |-> keys[i],
             text |-> labels[keys[i]], extra |-> ""]]

\* ------------------------------------------------------------------------
\* Analyzer.analyze_orders, print_bad_orders
\* ------------------------------------------------------------------------
\* The boolean mask of analyze_orders for row r, given the two quantiles.
IsBadOrder(r, q75_time, q25_margin) ==
    /\ XGt(r["processing_time_hr"], q75_time)
    /\ XLt(r["margin_per_hour"], q25_margin)
    /\ XGt(r["risk (in percent)"], Int2X(15))

\* DataFrame.sort_values("margin_per_hour"): ascending, equal values in
\* their original order, NaN last.
RECURSIVE InsertRow(_, _)
InsertRow(r, s) ==
    IF Len(s) = 0 THEN <<r>>
    ELSE IF XLt(r["margin_per_hour"], Head(s)["margin_per_hour"])
         THEN <<r>> \o s
    ELSE <<Head(s)>> \o InsertRow(r, Tail(s))

RECURSIVE SortRows(_)
SortRows(s) ==
    IF Len(s) = 0 THEN <<>>
    ELSE InsertRow(s[Len(s)], SortRows(SubSeq(s, 1, Len(s) - 1)))

\* The selection left in table order.
SortByMarginMissing(rows) == rows

SortByMargin(rows) ==
    SortRows(SelectSeq(rows, LAMBDA r : ~IsNaN(r["margin_per_hour"])))
        \o SelectSeq(rows, LAMBDA r : IsNaN(r["margin_per_hour"]))

AnalyzeOrders(df) ==
    LET q75_time == Quantile(Column(df.rows, "processing_time_hr"), 3, 4)
        q25_margin == Quantile(Column(df.rows, "margin_per_hour"), 1, 4)
    IN  [cols |-> df.cols,
         rows |-> SortByMargin(SelectSeq(df.rows,
                      LAMBDA r : IsBadOrder(r, q75_time, q25_margin)))]

\* self.bad_orders: None, or a data frame.
NoFrame == [cols |-> <<>>, rows |-> <<>>]

None == [is_none |-> TRUE, df |-> NoFrame]

Some(df) == [is_none |-> FALSE, df |-> df]

\* print_bad_orders: hasattr(self, "bad_orders") is True once __init__ ran,
\* so the test goes on to self.bad_orders.empty, which None does not have.
Line(subject, text) ==
    [report |-> "bad orders", subject |-> subject, text |-> text, extra |-> ""]

PrintBadOrders(bad) ==
    IF bad.is_none
    THEN [out |-> <<>>,
          error |-> "AttributeError: 'NoneType' object has no attribute 'empty'"]
    ELSE IF Len(bad.df.rows) = 0
    THEN [out |-> <<Line("", "No bad bottleneck candidates identified.")>>,
          error |-> ""]
    ELSE [out |-> <<Line("", "=== Orders unsuited for bottleneck machines ===")>>
                    \o [i \in 1..Len(bad.df.rows) |->
                           Line(IntToStr(bad.df.rows[i]["order_id"]), "")],
          error |-> ""]

\* ------------------------------------------------------------------------
\* State
\* ------------------------------------------------------------------------
VARIABLES
    df,            \* the table handed to Analyzer(df)
    pc,            \* "new": not constructed, "ready", "failed": uncaught exception
    order_df,      \* self.order_df
    client_dict,   \* self.client_dict: key -> diagnostic record
    bad_orders,    \* self.bad_orders
    corr,          \* the value the last analyze_margin() returned
    out,           \* what the last print_* operation printed
    err,           \* the exception that ended the run, "" if none
    obj            \* the last RISK/GAIN a caller constructed directly

vars == <<df, pc, order_df, client_dict, bad_orders, corr, out, err, obj>>

NoObj == [ok |-> FALSE, value |-> 0, error |-> ""]

\* ------------------------------------------------------------------------
\* Input tables
\* ------------------------------------------------------------------------
Kind(c, pt, costs, profit, risk) ==
    [c |-> c, pt |-> pt, costs |-> costs, profit |-> profit, risk |-> risk]

\* Row number i of a table: order_id is the row's position.
Row(kind, i) ==
    [customer_id |-> kind.c, order_id |-> i,
     processing_time_hr |-> Int2X(kind.pt), costs |-> Int2X(kind.costs),
     profit |-> Int2X(kind.profit)] @@ ("risk (in percent)" :> Int2X(kind.risk))

Table(kinds) ==
    [cols |-> BaseColumns, rows |-> [i \in 1..Len(kinds) |-> Row(kinds[i], i)]]

SeqsUpTo(S, n) == UNION {[1..m -> S] : m \in 0..n}

Tables(S, n) == {Table(k) : k \in SeqsUpTo(S, n)}

\* The tables of the complete model: an integer and a string customer id,
\* zero processing times (margin per hour +inf, NaN), negative and positive
\* finite margins, risks on both sides of the order filter's threshold.
Kinds ==
    UNION {{Kind(c, 0, 1, 2, 20), Kind(c, 0, 1, 1, 10),
            Kind(c, 2, 1, 0, 20), Kind(c, 1, 1, 2, 10)} :
               c \in {IdInt(1), IdStr("1")}}

InitWith(tables) ==
    /\ df \in tables
    /\ pc = "new"
    /\ order_df = NoFrame
    /\ client_dict = <<>>
    /\ bad_orders = None
    /\ corr = <<>>
    /\ out = <<>>
    /\ err = ""
    /\ obj = NoObj

Init == InitWith(Tables(Kinds, MaxRows))

\* ------------------------------------------------------------------------
\* Operations
\* ------------------------------------------------------------------------
\* Analyzer(df): __init__ copies the table and derives the columns.
Analyzer ==
    /\ pc = "new"
    /\ order_df' = PrepareColumns(df)
    /\ client_dict' = <<>>
    /\ bad_orders' = None
    /\ pc' = "ready"
    /\ UNCHANGED <<df, corr, out, err, obj>>

_prepare_columns ==
    /\ pc = "ready"
    /\ order_df' = PrepareColumns(order_df)
    /\ UNCHANGED <<df, pc, client_dict, bad_orders, corr, out, err, obj>>

analyze_margin ==
    /\ pc = "ready"
    /\ corr' = AnalyzeMargin(order_df)
    /\ UNCHANGED <<df, pc, order_df, client_dict, bad_orders, out, err, obj>>

print_characteristics ==
    /\ pc = "ready"
    /\ out' = Characteristics(AnalyzeMargin(order_df))
    /\ UNCHANGED <<df, pc, order_df, client_dict, bad_orders, corr, err, obj>>

analyze_client ==
    /\ pc = "ready"
    /\ LET res == AnalyzeClient(order_df, client_dict)
       IN  /\ client_dict' = res.dict
           /\ err' = res.error
           /\ pc' = IF res.error = "" THEN "ready" ELSE "failed"
    /\ UNCHANGED <<df, order_df, bad_orders, corr, out, obj>>

print_client_risk_and_gain ==
    /\ pc = "ready"
    /\ out' = ClientLines(client_dict)
    /\ UNCHANGED <<df, pc, order_df, client_dict, bad_orders, corr, err, obj>>

\* analyze_orders filtering and sorting self.order_df itself.
analyze_orders_inplace ==
    /\ pc = "ready"
    /\ order_df' = AnalyzeOrders(order_df)
    /\ bad_orders' = Some(AnalyzeOrders(order_df))
    /\ UNCHANGED <<df, pc, client_dict, corr, out, err, obj>>

analyze_orders ==
    /\ pc = "ready"
    /\ bad_orders' = Some(AnalyzeOrders(order_df))
    /\ UNCHANGED <<df, pc, order_df, client_dict, corr, out, err, obj>>

print_bad_orders ==
    /\ pc = "ready"
    /\ LET res == PrintBadOrders(bad_orders)
       IN  /\ out' = res.out
           /\ err' = res.error
           /\ pc' = IF res.error = "" THEN "ready" ELSE "failed"
    /\ UNCHANGED <<df, order_df, client_dict, bad_orders, corr, obj>>

\* A caller that constructs the value objects itself, without an Analyzer.
NewRISK ==
    /\ pc \in {"new", "types"}
    /\ \E value \in -2..MaxValue : obj' = RISK(value)
    /\ pc' = "types"
    /\ UNCHANGED <<df, order_df, client_dict, bad_orders, corr, out, err>>

NewGAIN ==
    /\ pc \in {"new", "types"}
    /\ \E value \in -2..MaxValue : obj' = GAIN(value)
    /\ pc' = "types"
    /\ UNCHANGED <<df, order_df, client_dict, bad_orders, corr, out, err>>

Next ==
    \/ Analyzer
    \/ _prepare_columns
    \/ analyze_margin
    \/ print_characteristics
    \/ analyze_client
    \/ print_client_risk_and_gain
    \/ analyze_orders
    \/ print_bad_orders

Spec == Init /\ [][Next]_vars

\* ------------------------------------------------------------------------
\* The Metric Deriver alone, on tables that may already hold the derived
\* columns (with values of their own)
\* ------------------------------------------------------------------------
Preset(t, c, v) == WithColumn(t, c, [i \in 1..Len(t.rows) |-> Int2X(v)])

PresetTables(tables) ==
    UNION {{t, Preset(t, "contribution_margin", 7),
            Preset(t, "margin_per_hour", 9),
            Preset(Preset(t, "contribution_margin", 7), "margin_per_hour", 9),
            Preset(Preset(t, "margin_per_hour", 9), "contribution_margin", 7)} :
                t \in tables}

InitPrepare == InitWith(PresetTables(Tables(Kinds, MaxRows)))

NextPrepare == Analyzer \/ _prepare_columns

SpecPrepare == InitPrepare /\ [][NextPrepare]_vars

\* ------------------------------------------------------------------------
\* The Margin Driver Analyzer alone
\* ------------------------------------------------------------------------
MarginKinds ==
    {Kind(IdStr("A"), 1, 1, 3, 10), Kind(IdStr("A"), 2, 1, 3, 20),
     Kind(IdStr("A"), 2, 3, 1, 10), Kind(IdStr("A"), 3, 2, 2, 30),
     Kind(IdStr("A"), 1, 2, 4, 30), Kind(IdStr("A"), 0, 1, 2, 20)}

InitMargin == InitWith(Tables(MarginKinds, MaxMarginRows))

NextMargin == Analyzer \/ analyze_margin \/ print_characteristics

SpecMargin == InitMargin /\ [][NextMargin]_vars

\* ------------------------------------------------------------------------
\* The Order Filter alone
\* ------------------------------------------------------------------------
OrderKinds ==
    {Kind(IdStr("A"), 3, 3, 0, 20), Kind(IdStr("A"), 3, 3, 3, 20),
     Kind(IdStr("A"), 1, 1, 2, 20), Kind(IdStr("A"), 3, 3, 0, 10)}

InitOrders == InitWith(Tables(OrderKinds, MaxOrderRows))

NextOrders == Analyzer \/ analyze_orders \/ print_bad_orders

SpecOrders == InitOrders /\ [][NextOrders]_vars

\* ------------------------------------------------------------------------
\* The risk score: tables of two clients whose rows differ in risk only
\* ------------------------------------------------------------------------
RiskPercentMax == 100

RiskKinds ==
    {Kind(c, 1, 0, 1, risk) :
        c \in {IdStr("A"), IdStr("B")}, risk \in {0, 14, RiskPercentMax}}

\* Clients A and B with one row each, of risks a <= b.
RiskPairs(max) ==
    {Table(<<Kind(IdStr("A"), 1, 0, 1, p[1]), Kind(IdStr("B"), 1, 0, 1, p[2])>>) :
        p \in {q \in (0..max) \X (0..max) : q[1] <= q[2]}}

InitRisk ==
    InitWith(Tables(RiskKinds, MaxRiskRows) \cup RiskPairs(RiskPercentMax))

NextRisk == Analyzer \/ analyze_client

SpecRisk == InitRisk /\ [][NextRisk]_vars

\* ------------------------------------------------------------------------
\* The Client Scorer and the value objects: one client, a few chosen rows
\* followed by none or MaxPad rows of zero margin
\* ------------------------------------------------------------------------
ScoreKinds ==
    {Kind(IdStr("A"), 1, 100, 0, 0), Kind(IdStr("A"), 1, 0, 1, RiskPercentMax),
     Kind(IdStr("A"), 2, 0, 1, 14), Kind(IdStr("A"), 0, 0, 1, 20)}

Pad(n) == [i \in 1..n |-> Kind(IdStr("A"), 1, 1, 1, 20)]

ScoreTables(rows, pad) ==
    {Table(k \o Pad(n)) : k \in SeqsUpTo(ScoreKinds, rows), n \in {0, pad}}

InitScore == InitWith(ScoreTables(MaxScoreRows, MaxPad))

NextScore == Analyzer \/ analyze_client \/ NewRISK \/ NewGAIN

SpecScore == InitScore /\ [][NextScore]_vars

\* ------------------------------------------------------------------------
\* The classification: every diagnostic record a client can have
\* ------------------------------------------------------------------------
InitClassify ==
    /\ df = Table(<<Kind(IdStr("A"), 1, 0, 1, 20)>>)
    /\ pc = "ready"
    /\ order_df = PrepareColumns(df)
    /\ \E gain \in 1..10, risk \in 1..10, v \in 0..MaxTwiceVariance :
           client_dict = ("A" :> [risk |-> risk, risk_variance |-> Fin(v, 2),
                                  gain |-> gain,
                                  avg_margin_per_hour |-> Int2X(1)])
    /\ bad_orders = None
    /\ corr = <<>>
    /\ out = <<>>
    /\ err = ""
    /\ obj = NoObj

NextClassify == print_client_risk_and_gain

SpecClassify == InitClassify /\ [][NextClassify]_vars

\* ========================================================================
\* Properties
\* ========================================================================
Labels ==
    {"Profitable but risky", "Unprofitable but stable", "Strong client",
     "Risk exposure", "Neutral"}

\* The five rules in their priority order, for one diagnostic record.
Rules(rec) ==
    <<[holds |-> rec.gain >= 6
                    /\ (rec.risk >= 6 \/ XGe(rec.risk_variance, Int2X(60))),
       label |-> "Profitable but risky"],
      [holds |-> rec.gain <= 4 /\ rec.risk <= 4
                    /\ XLe(rec.risk_variance, Int2X(40)),
       label |-> "Unprofitable but stable"],
      [holds |-> rec.gain >= 6, label |-> "Strong client"],
      [holds |-> rec.risk >= 6 \/ XGe(rec.risk_variance, Int2X(60)),
       label |-> "Risk exposure"],
      [holds |-> TRUE, label |-> "Neutral"]>>

FirstRule(rec) ==
    CHOOSE i \in 1..5 :
        Rules(rec)[i].holds /\ \A j \in 1..(i - 1) : ~Rules(rec)[j].holds

\* C1: once print_client_risk_and_gain has printed, there is exactly one
\* line per client, its label is one of the five, and it is the label of
\* the first rule, in the fixed order, that the client's (gain, risk,
\* variance) satisfies.
C1_FirstRuleWins ==
    (pc = "ready" /\ Len(out) > 0 /\ out[1].report = "clients") =>
        /\ Len(out) = Cardinality(DOMAIN client_dict)
        /\ \A i \in 1..Len(out) :
              /\ out[i].subject \in DOMAIN client_dict
              /\ out[i].text \in Labels
              /\ out[i].text
                    = Rules(client_dict[out[i].subject])
                          [FirstRule(client_dict[out[i].subject])].label
              /\ \A j \in 1..Len(out) : out[j].subject = out[i].subject => j = i

\* A client that satisfies rule 1 by its variance alone, and rule 3 as well,
\* printed as "Profitable but risky".
C1_Witness ==
    /\ Len(out) = 1
    /\ out[1].report = "clients"
    /\ out[1].text = "Profitable but risky"
    /\ client_dict["A"].gain >= 6
    /\ client_dict["A"].risk < 6
    /\ XGe(client_dict["A"].risk_variance, Int2X(60))

\* The three conditions of the order filter for row r of order_df, the
\* percentiles taken over the whole table.
LongProcessing(r) ==
    XGt(r["processing_time_hr"],
        Quantile(Column(order_df.rows, "processing_time_hr"), 3, 4))

LowMargin(r) ==
    XLt(r["margin_per_hour"],
        Quantile(Column(order_df.rows, "margin_per_hour"), 1, 4))

HighRisk(r) == XGt(r["risk (in percent)"], Int2X(15))

InBadOrders(r) == \E i \in 1..Len(bad_orders.df.rows) : bad_orders.df.rows[i] = r

C2_RiskExcludes ==
    /\ pc = "ready"
    /\ ~bad_orders.is_none
    /\ \E i \in 1..Len(order_df.rows) :
          /\ LongProcessing(order_df.rows[i])
          /\ LowMargin(order_df.rows[i])
          /\ order_df.rows[i]["risk (in percent)"] = Int2X(10)
          /\ ~InBadOrders(order_df.rows[i])

ValidationErrors ==
    {"ValueError: RISK must be between 1 and 10",
     "ValueError: GAIN must be between 1 and 10"}

\* C3: every RISK and GAIN that exists has 1 <= value <= 10: a direct
\* construction yields an instance exactly when the integer is in [1,10] and
\* the validation error otherwise; the scores in client_dict are in [1,10];
\* and no run of analyze_client ends in the validation error.
C3_ValueRange ==
    /\ pc = "types" =>
          /\ obj.ok <=> (1 <= obj.value /\ obj.value <= 10)
          /\ ~obj.ok => obj.error \in ValidationErrors
    /\ \A key \in DOMAIN client_dict :
          /\ client_dict[key].risk \in 1..10
          /\ client_dict[key].gain \in 1..10
    /\ err \notin ValidationErrors

\* The mean margin of the client's rows lies below their 10th percentile, so
\* the rescaled gain is negative and only the clamp brings it to 1.
C3_Witness ==
    /\ pc = "ready"
    /\ "A" \in DOMAIN client_dict
    /\ client_dict["A"].gain = 1
    /\ Len(order_df.rows) > MaxPad
    /\ XLt(Mean(Column(order_df.rows, "margin_per_hour")),
           Percentile(Column(order_df.rows, "margin_per_hour"), 1, 10))
    /\ XLt(Percentile(Column(order_df.rows, "margin_per_hour"), 1, 10),
           Percentile(Column(order_df.rows, "margin_per_hour"), 9, 10))

\* An out-of-range integer handed to a constructor: the validation error.
C3_Rejected ==
    /\ pc = "types"
    /\ ~obj.ok
    /\ obj.value = 11

\* The enriched table: the columns and rows of the input table as they are,
\* in their order, with their values (a derived column the input already
\* holds included), and each missing derived column appended with its
\* formula's values.
C4_Enriched ==
    /\ Len(order_df.rows) = Len(df.rows)
    /\ Len(order_df.cols) >= Len(df.cols)
    /\ SubSeq(order_df.cols, 1, Len(df.cols)) = df.cols
    /\ \A i \in 1..Len(df.rows) : \A j \in 1..Len(df.cols) :
          order_df.rows[i][df.cols[j]] = df.rows[i][df.cols[j]]
    /\ InCols(order_df, "contribution_margin")
    /\ InCols(order_df, "margin_per_hour")
    /\ \A i \in 1..Len(df.rows) :
          /\ ~InCols(df, "contribution_margin") =>
                order_df.rows[i]["contribution_margin"]
                    = XSub(df.rows[i]["profit"], df.rows[i]["costs"])
          /\ ~InCols(df, "margin_per_hour") =>
                order_df.rows[i]["margin_per_hour"]
                    = XDiv(order_df.rows[i]["contribution_margin"],
                           df.rows[i]["processing_time_hr"])

\* C4: _prepare_columns is idempotent: the first run (in the constructor)
\* leaves the enriched table, in which a derived column that the input
\* already holds is untouched and no row or column is removed or reordered,
\* and every further run of _prepare_columns leaves order_df as it is.
C4_Idempotent ==
    [][/\ pc' = "ready" => C4_Enriched'
       /\ pc = "ready" => order_df' = order_df]_vars

\* An input that holds margin_per_hour and no contribution_margin: the
\* one is kept, the other appended behind it.
C4_Witness ==
    /\ pc = "ready"
    /\ Len(df.rows) = MaxRows
    /\ InCols(df, "margin_per_hour")
    /\ ~InCols(df, "contribution_margin")
    /\ order_df.cols = Append(df.cols, "contribution_margin")
    /\ order_df.rows[1]["margin_per_hour"] = Int2X(9)
    /\ order_df.rows[1]["contribution_margin"] # Int2X(9)

FeatureNames(ranking, field) == [i \in 1..Len(ranking) |-> ranking[i][field]]

\* C5: the ranking analyze_margin returns is in descending order of the
\* coefficient (entries without a coefficient last), and the ranking
\* print_characteristics reports is that ranking without margin_per_hour:
\* the four features, each once, in the same order.
C5_Ranking ==
    /\ Len(corr) > 0 =>
          /\ \A i \in 1..Len(corr) : \A j \in (i + 1)..Len(corr) :
                \/ IsNaN(corr[j].value)
                \/ XGe(corr[i].value, corr[j].value)
          /\ {corr[i].feature : i \in 1..Len(corr)}
                = {Features[i] : i \in 1..Len(Features)} \cup {"margin_per_hour"}
          /\ \A i \in 1..Len(corr) :
                corr[i].value
                    = CorrSigned(Column(order_df.rows, corr[i].feature),
                                 Column(order_df.rows, "margin_per_hour"))
    /\ (Len(out) > 0 /\ out[1].report = "characteristics") =>
          /\ Len(out) = Len(Features)
          /\ {out[i].subject : i \in 1..Len(out)}
                = {Features[i] : i \in 1..Len(Features)}
          /\ Len(corr) > 0 =>
                FeatureNames(out, "subject")
                    = SelectSeq(FeatureNames(corr, "feature"),
                                LAMBDA f : f # "margin_per_hour")

\* A ranking whose features have a positive and a negative coefficient and
\* stand in another order than the feature set's, returned and reported.
C5_Witness ==
    /\ Len(corr) = 5
    /\ Len(out) = 4
    /\ out[1].report = "characteristics"
    /\ corr[1].feature = "margin_per_hour"
    /\ XGt(corr[2].value, Int2X(0))
    /\ XLt(corr[5].value, corr[4].value)
    /\ XLt(corr[4].value, Int2X(0))
    /\ corr[2].feature # "processing_time_hr"

\* The risk values of the client whose key is key, and their mean.
RisksOf(key) ==
    Column(SelectSeq(order_df.rows, LAMBDA r : Str(r["customer_id"]) = key),
           "risk (in percent)")

ExpectedRisk(key) == Mean(RisksOf(key))

\* C8: a client of expected risk 0 has risk score 1; of two clients the one
\* with the larger expected risk never has the smaller score; and a client
\* with the risks 100, 100, 100 has score 10 and variance 0.
C8_RiskScore ==
    \A a \in DOMAIN client_dict :
        /\ XEq(ExpectedRisk(a), Int2X(0)) => client_dict[a].risk = 1
        /\ RisksOf(a) = <<Int2X(100), Int2X(100), Int2X(100)>> =>
              /\ client_dict[a].risk = 10
              /\ client_dict[a].risk_variance = Int2X(0)
        /\ \A b \in DOMAIN client_dict :
              XLe(ExpectedRisk(a), ExpectedRisk(b)) =>
                  client_dict[a].risk <= client_dict[b].risk

C8_Witness ==
    /\ pc = "ready"
    /\ "A" \in DOMAIN client_dict
    /\ RisksOf("A") = <<Int2X(100), Int2X(100), Int2X(100)>>
    /\ client_dict["A"].risk = 10
    /\ client_dict["A"].risk_variance = Int2X(0)

\* Two clients of different expected risks and different scores.
C8_Increasing ==
    /\ pc = "ready"
    /\ DOMAIN client_dict = {"A", "B"}
    /\ XLt(ExpectedRisk("A"), ExpectedRisk("B"))
    /\ client_dict["A"].risk = 5
    /\ client_dict["B"].risk = 6

\* C9: once the Analyzer is constructed no operation changes order_df, and
\* what an analysis leaves behind is what it leaves on the freshly
\* constructed Analyzer, whatever ran before it.
C9_ReadOnly ==
    [][pc = "ready" =>
          /\ order_df' = order_df
          /\ order_df = PrepareColumns(df)
          /\ corr' # corr => corr' = AnalyzeMargin(PrepareColumns(df))
          /\ bad_orders' # bad_orders =>
                bad_orders' = Some(AnalyzeOrders(PrepareColumns(df)))
          /\ client_dict' # client_dict =>
                client_dict' = AnalyzeClient(PrepareColumns(df), <<>>).dict]_vars

\* All three analyses and a report have run, and rows were selected.
C9_Witness ==
    /\ pc = "ready"
    /\ Len(corr) > 0
    /\ DOMAIN client_dict # {}
    /\ ~bad_orders.is_none
    /\ Len(bad_orders.df.rows) > 0
    /\ Len(bad_orders.df.rows) < Len(order_df.rows)
    /\ Len(out) > 0
    /\ order_df = PrepareColumns(df)

HasZeroTime(t) ==
    \E i \in 1..Len(t.rows) : t.rows[i]["processing_time_hr"] = Int2X(0)

\* C6: with rows of processing time 0 in the table no analysis ends in an
\* uncaught error, and analyze_client gives every client a record.
C6_NoFault ==
    HasZeroTime(df) =>
        /\ err # "ValueError: cannot convert float NaN to integer"
        /\ (pc = "ready" /\ DOMAIN client_dict # {}) =>
              \A i \in 1..Len(order_df.rows) :
                  Str(order_df.rows[i]["customer_id"]) \in DOMAIN client_dict

\* The diagnostic record of the rows of one customer_id.
RecordOf(id) ==
    LET client_df == GroupRows(order_df, id)
    IN  [risk |-> CalculateRisk(client_df).risk.value,
         risk_variance |-> CalculateRisk(client_df).variance,
         gain |-> CalculateGain(client_df).value,
         avg_margin_per_hour |-> Mean(Column(client_df, "margin_per_hour"))]

\* C7: once analyze_client has run to its end, client_dict has one key per
\* distinct customer_id of the table and no other, and each customer_id's
\* record is the one computed from that client's rows.
C7_KeysAreCustomers ==
    (pc = "ready" /\ DOMAIN client_dict # {}) =>
        LET ids == {order_df.rows[i]["customer_id"] : i \in 1..Len(order_df.rows)}
        IN  /\ Cardinality(DOMAIN client_dict) = Cardinality(ids)
            /\ \A id \in ids :
                  /\ Str(id) \in DOMAIN client_dict
                  /\ client_dict[Str(id)] = RecordOf(id)
            /\ \A key \in DOMAIN client_dict : \E id \in ids : Str(id) = key

\* C10: while bad_orders holds no rows (analyze_orders not run, or nothing
\* selected) print_bad_orders prints the "no candidates" line and raises
\* nothing.
C10_EmptyIsReported ==
    [][(print_bad_orders
           /\ (bad_orders.is_none \/ Len(bad_orders.df.rows) = 0)) =>
          /\ err' = ""
          /\ pc' = "ready"
          /\ out' = <<Line("", "No bad bottleneck candidates identified.")>>]_vars

====
